---- MODULE Spec2Model ----
(***************************************************************************)
(* Model of pkg/controller/seldondeployment/model_initializer_injector.go: *)
(* InjectModelInitializer mutating a Deployment's pod template in place,   *)
(* and parsePvcURI.  Strings that the code takes apart or builds (URIs,    *)
(* paths, claim names) are sequences of one-character strings; names that  *)
(* the code only compares are TLA+ strings.                                *)
(***************************************************************************)
EXTENDS Integers, Sequences, FiniteSets, TLC

\* ------------------------------------------------------------------ bounds
\* Number of InjectModelInitializer invocations explored per behaviour.
MaxCalls == 2

\* Number of invocations explored statement by statement.
MaxStepCalls == 2

\* --------------------------------------------------------------- constants
DefaultModelLocalMountPath == <<"/", "m", "n", "t", "/", "m", "o", "d", "e", "l", "s">>
ModelInitializerContainerName == "model-initializer"
ModelInitializerVolumeName == "kfserving-provision-location"
ModelInitializerContainerImage == "gcr.io/kfserving/model-initializer"
ModelInitializerContainerVersion == "latest"
PvcURIPrefix == <<"p", "v", "c", ":", "/", "/">>
PvcSourceMountName == "kfserving-pvc-source"
PvcSourceMountPath == <<"/", "m", "n", "t", "/", "p", "v", "c">>
UserContainerName == "user-container"

\* The "/" literal of lines 103, 170 and 173.
Slash == <<"/">>

\* ---------------------------------------------------------- string helpers
\* strings.HasPrefix
HasPrefix(s, prefix) ==
    /\ Len(s) >= Len(prefix)
    /\ SubSeq(s, 1, Len(prefix)) = prefix

\* strings.TrimPrefix
TrimPrefix(s, prefix) ==
    IF HasPrefix(s, prefix) THEN SubSeq(s, Len(prefix) + 1, Len(s)) ELSE s

\* strings.Index: position of the first occurrence of sep in s, 0 if none.
Index(s, sep) ==
    LET hits == {i \in 1..(Len(s) - Len(sep) + 1) : SubSeq(s, i, i + Len(sep) - 1) = sep}
    IN  IF hits = {} THEN 0 ELSE CHOOSE i \in hits : \A j \in hits : i <= j

\* strings.Split with a non-empty separator: always at least one element.
\* The singleton set binds the string to its value once per level.
RECURSIVE Split(_, _)
Split(str, sep) ==
    CHOOSE parts \in
        { LET i == Index(s, sep)
          IN  IF i = 0
              THEN <<s>>
              ELSE <<SubSeq(s, 1, i - 1)>> \o Split(SubSeq(s, i + Len(sep), Len(s)), sep) :
            s \in {str} } : TRUE

\* strings.Join
RECURSIVE Join(_, _)
Join(elems, sep) ==
    IF Len(elems) = 0 THEN <<>>
    ELSE IF Len(elems) = 1 THEN elems[1]
    ELSE elems[1] \o sep \o Join(Tail(elems), sep)

\* Variant: the sub-path is the second segment alone, not the rest rejoined.
parsePvcURI_SecondSegment(srcURI) ==
    LET parts == Split(TrimPrefix(srcURI, PvcURIPrefix), Slash)
    IN  IF Len(parts) > 1
        THEN [pvcName |-> parts[1], pvcPath |-> parts[2], err |-> "nil"]
        ELSE IF Len(parts) = 1
        THEN [pvcName |-> parts[1], pvcPath |-> <<>>, err |-> "nil"]
        ELSE [pvcName |-> <<>>, pvcPath |-> <<>>, err |-> "InvalidURI"]

\* ------------------------------------------------------------- parsePvcURI
parsePvcURI(srcURI) ==
    LET parts == Split(TrimPrefix(srcURI, PvcURIPrefix), Slash)
    IN  IF Len(parts) > 1
        THEN [pvcName |-> parts[1], pvcPath |-> Join(Tail(parts), Slash), err |-> "nil"]
        ELSE IF Len(parts) = 1
        THEN [pvcName |-> parts[1], pvcPath |-> <<>>, err |-> "nil"]
        ELSE [pvcName |-> <<>>, pvcPath |-> <<>>, err |-> "InvalidURI"]

\* ------------------------------------------------- volumes, mounts, container
\* corev1.Volume: Source is the one VolumeSource member that is set.
Volume(name, source, claimName) ==
    [Name |-> name, Source |-> source, ClaimName |-> claimName]

\* corev1.VolumeMount
VolumeMount(name, mountPath, readOnly) ==
    [Name |-> name, MountPath |-> mountPath, ReadOnly |-> readOnly]

pvcSourceVolume(pvcName) == Volume(PvcSourceMountName, "PersistentVolumeClaim", pvcName)

pvcSourceVolumeMount == VolumeMount(PvcSourceMountName, PvcSourceMountPath, TRUE)

sharedVolume == Volume(ModelInitializerVolumeName, "EmptyDir", <<>>)

sharedVolumeWriteMount ==
    VolumeMount(ModelInitializerVolumeName, DefaultModelLocalMountPath, FALSE)

\* Variant: the user container's mount of the shared volume is left writable.
sharedVolumeReadMount_Writable ==
    VolumeMount(ModelInitializerVolumeName, DefaultModelLocalMountPath, FALSE)

sharedVolumeReadMount ==
    VolumeMount(ModelInitializerVolumeName, DefaultModelLocalMountPath, TRUE)

\* Variant: the staging path and the sub-path are joined without the separator.
rewrittenURI_NoSeparator(pvcPath) == PvcSourceMountPath \o pvcPath

\* The effective source URI: line 103 for a pvc:// source.
rewrittenURI(pvcPath) == PvcSourceMountPath \o Slash \o pvcPath

\* Variant: the two arguments are given in the opposite order.
initContainer_ArgsSwapped(srcURI, modelInitializerMounts) ==
    [Name         |-> ModelInitializerContainerName,
     Image        |-> ModelInitializerContainerImage \o ":" \o ModelInitializerContainerVersion,
     Args         |-> <<DefaultModelLocalMountPath, srcURI>>,
     VolumeMounts |-> modelInitializerMounts,
     Env          |-> <<>>]

initContainer(srcURI, modelInitializerMounts) ==
    [Name         |-> ModelInitializerContainerName,
     Image        |-> ModelInitializerContainerImage \o ":" \o ModelInitializerContainerVersion,
     Args         |-> <<srcURI, DefaultModelLocalMountPath>>,
     VolumeMounts |-> modelInitializerMounts,
     Env          |-> <<>>]

\* Variant: the guard looks for the wrong reserved name.
AlreadyInjected_WrongName(initContainers) ==
    \E i \in 1..Len(initContainers) :
        initContainers[i].Name = UserContainerName

\* Variant: the guard looks at the first init container only.
AlreadyInjected_FirstOnly(initContainers) ==
    /\ Len(initContainers) >= 1
    /\ initContainers[1].Name = ModelInitializerContainerName

\* Variant: the guard recognises the injected container by its image.
AlreadyInjected_ByImage(initContainers) ==
    \E i \in 1..Len(initContainers) :
        initContainers[i].Image =
            ModelInitializerContainerImage \o ":" \o ModelInitializerContainerVersion

\* The guard of lines 66-70.
AlreadyInjected(initContainers) ==
    \E i \in 1..Len(initContainers) :
        initContainers[i].Name = ModelInitializerContainerName

\* ------------------------------------------------ the credential collaborator
\* How the cluster answers during one invocation: the config map lookup of
\* credentialsBuilder fails ("configErr"), or CreateSecretVolumeAndEnv
\* succeeds or fails, with or without attaching a secret volume first.
CredBehaviours == {"ok", "okSecret", "configErr", "credErr", "credErrSecret"}

\* credentialsBuilder: the error of Client.Get, nil when the config map is found.
credentialsBuilder(cred) ==
    IF cred = "configErr" THEN "ConfigMapError" ELSE "nil"

SecretVolumeName == "user-gcp-sa"
SecretMountPath == <<"/", "v", "a", "r", "/", "s", "e", "c", "r", "e", "t", "s">>
SecretEnvName == "GOOGLE_APPLICATION_CREDENTIALS"

\* credentials.CredentialBuilder.CreateSecretVolumeAndEnv: may append a volume
\* to the collection it is handed and add a mount and an environment variable
\* to the container; it appends only.
CreateSecretVolumeAndEnv(cred, container, volumes) ==
    LET attach == cred \in {"okSecret", "credErrSecret"}
    IN  [err       |-> IF cred \in {"credErr", "credErrSecret"} THEN "CredentialError" ELSE "nil",
         volumes   |-> IF attach
                       THEN Append(volumes, Volume(SecretVolumeName, "Secret", <<>>))
                       ELSE volumes,
         container |-> IF attach
                       THEN [container EXCEPT
                               !.VolumeMounts = Append(@, VolumeMount(SecretVolumeName, SecretMountPath, TRUE)),
                               !.Env = Append(@, SecretEnvName)]
                       ELSE container]

\* What the collaborator was handed, when it was invoked.
NoCredCall == [invoked |-> FALSE, serviceAccountName |-> "", volumes |-> <<>>]

CredCall(serviceAccountName, volumes) ==
    [invoked |-> TRUE, serviceAccountName |-> serviceAccountName, volumes |-> volumes]

\* ------------------------------------------------- InjectModelInitializer
\* Variant: the claim volume is built for every source.
podVolumes_AlwaysClaim(isPvc, pvcName) ==
    <<pvcSourceVolume(pvcName), sharedVolume>>

\* Lines 72-113: the volumes this call builds.
podVolumes(isPvc, pvcName) ==
    (IF isPvc THEN <<pvcSourceVolume(pvcName)>> ELSE <<>>) \o <<sharedVolume>>

\* Lines 73-121: the mounts of the init container.
modelInitializerMounts(isPvc) ==
    (IF isPvc THEN <<pvcSourceVolumeMount>> ELSE <<>>) \o <<sharedVolumeWriteMount>>

\* Variant: the result of append is not kept.
appendUserMount_Dropped(uc) == uc

\* Line 140.
appendUserMount(uc) ==
    [uc EXCEPT !.VolumeMounts = Append(@, sharedVolumeReadMount)]

\* Variant: the volumes built replace the volumes of the pod template.
appendVolumes_Replace(ps, vols) ==
    [ps EXCEPT !.Volumes = vols]

\* Line 143.
appendVolumes(ps, vols) ==
    [ps EXCEPT !.Volumes = @ \o vols]

\* Variant: the caller's override is ignored.
effectiveServiceAccount_PodOnly(serviceAccountName, ps) ==
    ps.ServiceAccountName

\* Lines 150-152.
effectiveServiceAccount(serviceAccountName, ps) ==
    IF serviceAccountName = "" THEN ps.ServiceAccountName ELSE serviceAccountName

\* Line 164.
appendInitContainer(ps, container) ==
    [ps EXCEPT !.InitContainers = Append(@, container)]

Outcome(ps, uc, err, call) ==
    [podSpec |-> ps, userContainer |-> uc, err |-> err, credCall |-> call]

\* Variant: all-or-nothing commit, volumes and the user container's mount are
\* applied only once the credential step has succeeded.
Inject_Staged(ps, uc, srcURI, serviceAccountName, cred) ==
    IF AlreadyInjected(ps.InitContainers)
    THEN Outcome(ps, uc, "nil", NoCredCall)
    ELSE
    LET isPvc  == HasPrefix(srcURI, PvcURIPrefix)
        parsed == parsePvcURI(srcURI)
    IN  IF isPvc /\ parsed.err # "nil"
        THEN Outcome(ps, uc, parsed.err, NoCredCall)
        ELSE
        LET uri   == IF isPvc THEN rewrittenURI(parsed.pvcPath) ELSE srcURI
            ic    == initContainer(uri, modelInitializerMounts(isPvc))
            uc1   == appendUserMount(uc)
            ps1   == appendVolumes(ps, podVolumes(isPvc, parsed.pvcName))
            cbErr == credentialsBuilder(cred)
        IN  IF cbErr # "nil"
            THEN Outcome(ps, uc, cbErr, NoCredCall)
            ELSE
            LET sa   == effectiveServiceAccount(serviceAccountName, ps1)
                c    == CreateSecretVolumeAndEnv(cred, ic, ps1.Volumes)
                ps2  == [ps1 EXCEPT !.Volumes = c.volumes]
                call == CredCall(sa, ps1.Volumes)
            IN  IF c.err # "nil"
                THEN Outcome(ps, uc, c.err, call)
                ELSE Outcome(appendInitContainer(ps2, c.container), uc1, "nil", call)

\* The whole function: the pod spec and user container it leaves behind, the
\* error it returns and what it handed to the collaborator.
Inject(ps, uc, srcURI, serviceAccountName, cred) ==
    IF AlreadyInjected(ps.InitContainers)
    THEN Outcome(ps, uc, "nil", NoCredCall)
    ELSE
    LET isPvc  == HasPrefix(srcURI, PvcURIPrefix)
        parsed == parsePvcURI(srcURI)
    IN  IF isPvc /\ parsed.err # "nil"
        THEN Outcome(ps, uc, parsed.err, NoCredCall)
        ELSE
        LET uri   == IF isPvc THEN rewrittenURI(parsed.pvcPath) ELSE srcURI
            ic    == initContainer(uri, modelInitializerMounts(isPvc))
            uc1   == appendUserMount(uc)
            ps1   == appendVolumes(ps, podVolumes(isPvc, parsed.pvcName))
            cbErr == credentialsBuilder(cred)
        IN  IF cbErr # "nil"
            THEN Outcome(ps1, uc1, cbErr, NoCredCall)
            ELSE
            LET sa   == effectiveServiceAccount(serviceAccountName, ps1)
                c    == CreateSecretVolumeAndEnv(cred, ic, ps1.Volumes)
                ps2  == [ps1 EXCEPT !.Volumes = c.volumes]
                call == CredCall(sa, ps1.Volumes)
            IN  IF c.err # "nil"
                THEN Outcome(ps2, uc1, c.err, call)
                ELSE Outcome(appendInitContainer(ps2, c.container), uc1, "nil", call)

\* ------------------------------------------------------------------ inputs
S3Prefix == <<"s", "3", ":", "/", "/">>

\* What follows pvc:// in the claim-backed URIs tried.
Remainders ==
    { <<>>,
      <<"a">>,
      <<"a", "/">>,
      <<"a", "/", "b">>,
      <<"a", "/", "b", "/", "c">>,
      <<"/", "b">>,
      <<"a", "/", "/", "b">> }

PvcURIs == {PvcURIPrefix \o r : r \in Remainders}

\* s3://a/b, the near miss pvc:/a and the empty string.
OpaqueURIs == {S3Prefix \o <<"a", "/", "b">>, <<"p", "v", "c", ":", "/", "a">>, <<>>}

SourceURIs == PvcURIs \cup OpaqueURIs

ServiceAccountOverrides == {"", "model-sa"}

\* ----------------------------------------------------------- initial state
OtherInitContainer ==
    [Name |-> "wait-for-db", Image |-> "busybox:1", Args |-> <<>>,
     VolumeMounts |-> <<>>, Env |-> <<>>]

\* An init container that already carries the reserved name.
ReservedInitContainer ==
    [Name |-> ModelInitializerContainerName, Image |-> "custom/initializer:1",
     Args |-> <<>>, VolumeMounts |-> <<>>, Env |-> <<>>]

UserVolume == Volume("data", "EmptyDir", <<>>)
UserMount == VolumeMount("data", <<"/", "d", "a", "t", "a">>, FALSE)

InitialInitContainers == {<<>>, <<OtherInitContainer>>, <<ReservedInitContainer>>}

\* podSpec.Containers: the regular containers, by name; the fields of the one
\* the caller passes as userContainer are held in the variable userContainer.
InitialContainers == <<UserContainerName, "metrics-sidecar">>

InitialPodSpecs ==
    {[InitContainers |-> ics, Containers |-> InitialContainers, Volumes |-> vols,
      ServiceAccountName |-> sa] :
        ics \in InitialInitContainers,
        vols \in {<<>>, <<UserVolume>>},
        sa \in {"", "default"}}

InitialUserContainer(ps) ==
    [Name |-> UserContainerName,
     VolumeMounts |-> IF ps.Volumes = <<>> THEN <<>> ELSE <<UserMount>>]

\* ------------------------------------------------------- invocation tally
\* passed: invocations that got past the guard of lines 66-70; passedPvc: those
\* of them given a pvc:// source; failed, succeeded: those of them that
\* returned an error, nil; malformed: some invocation was given a URI that is
\* pvc:// and nothing more.
NoTally == [passed |-> 0, passedPvc |-> 0, failed |-> 0, succeeded |-> 0, malformed |-> FALSE]

Tally(h, initContainers, srcURI, err) ==
    LET p == IF AlreadyInjected(initContainers) THEN 0 ELSE 1
    IN  [passed    |-> h.passed + p,
         passedPvc |-> h.passedPvc + (IF HasPrefix(srcURI, PvcURIPrefix) THEN p ELSE 0),
         failed    |-> h.failed + (IF err # "nil" THEN p ELSE 0),
         succeeded |-> h.succeeded + (IF err = "nil" THEN p ELSE 0),
         malformed |-> h.malformed \/ srcURI = PvcURIPrefix]

\* ------------------------------------------------------------------- state
VARIABLES
    podSpec,        \* deployment.Spec.Template.Spec
    userContainer,  \* *userContainer
    ret,            \* error returned by the last invocation, "none" before any
    args,           \* srcURI, serviceAccountName and cluster behaviour of the last invocation
    pre,            \* podSpec and userContainer when the last invocation started
    credCall,       \* what the last invocation handed to CreateSecretVolumeAndEnv
    same,           \* the last invocation repeated the inputs of the one before it
    calls,          \* invocations so far
    hist,           \* tally of the invocations so far, see Tally
    pc,             \* where the running invocation stands, "idle" between invocations
    loc             \* podVolumes and initContainer of the running invocation

vars == <<podSpec, userContainer, ret, args, pre, credCall, same, calls, hist, pc, loc>>

\* No invocation is running: no locals.  initContainer is <<>> or one container.
NoLocals == [podVolumes |-> <<>>, initContainer |-> <<>>]

Init ==
    /\ podSpec \in InitialPodSpecs
    /\ userContainer = InitialUserContainer(podSpec)
    /\ ret = "none"
    /\ args = [srcURI |-> <<>>, serviceAccountName |-> "", cred |-> "ok"]
    /\ pre = [podSpec |-> podSpec, userContainer |-> userContainer]
    /\ credCall = NoCredCall
    /\ same = FALSE
    /\ calls = 0
    /\ hist = NoTally
    /\ pc = "idle"
    /\ loc = NoLocals

\* One invocation, start to return.
Invoke(srcURI, serviceAccountName, cred) ==
    /\ \E r \in {Inject(podSpec, userContainer, srcURI, serviceAccountName, cred)} :
           /\ podSpec' = r.podSpec
           /\ userContainer' = r.userContainer
           /\ ret' = r.err
           /\ credCall' = r.credCall
           /\ hist' = Tally(hist, podSpec.InitContainers, srcURI, r.err)
    /\ args' = [srcURI |-> srcURI, serviceAccountName |-> serviceAccountName, cred |-> cred]
    /\ pre' = [podSpec |-> podSpec, userContainer |-> userContainer]
    /\ same' = (ret # "none" /\ args' = args)
    /\ UNCHANGED <<pc, loc>>

InjectModelInitializer(srcURI, serviceAccountName, cred) ==
    /\ calls < MaxCalls
    /\ Invoke(srcURI, serviceAccountName, cred)
    /\ calls' = calls + 1

Next ==
    \E srcURI \in SourceURIs, serviceAccountName \in ServiceAccountOverrides,
       cred \in CredBehaviours :
        InjectModelInitializer(srcURI, serviceAccountName, cred)

Spec == Init /\ [][Next]_vars

\* ------------------------------------------------- the reconciliation loop
\* The caller of InjectModelInitializer: every reconcile pass invokes it again
\* with the inputs of the pass before.  Passes on which the credential step
\* fails are counted up to MaxCalls; passes on which it succeeds are not.
Reconcile(cred) ==
    /\ cred \notin {"ok", "okSecret"} => calls < MaxCalls
    /\ \E srcURI \in SourceURIs, serviceAccountName \in ServiceAccountOverrides :
           /\ ret # "none" =>
                  /\ srcURI = args.srcURI
                  /\ serviceAccountName = args.serviceAccountName
           /\ Invoke(srcURI, serviceAccountName, cred)
    /\ calls' = IF calls < MaxCalls THEN calls + 1 ELSE calls

RetryNext == \E cred \in CredBehaviours : Reconcile(cred)

\* A pass on which the cluster lets the credential step succeed.
CredentialsSucceed == \E cred \in {"ok", "okSecret"} : Reconcile(cred)

RetrySpec == Init /\ [][RetryNext]_vars /\ WF_vars(CredentialsSucceed)

\* ------------------------------------- the invocation, statement by statement
\* Variant: the credential step runs before the user container's mount and
\* the volumes are appended.
StepAfter_CredentialsFirst(step) ==
    CASE step = "build"              -> "credentialsBuilder"
      [] step = "credentialsBuilder" -> "createSecret"
      [] step = "createSecret"       -> "mountUser"
      [] step = "mountUser"          -> "appendVolumes"
      [] step = "appendVolumes"      -> "appendInit"
      [] step = "appendInit"         -> "idle"

\* The order of the statements of lines 72-166.
StepAfter(step) ==
    CASE step = "build"              -> "mountUser"
      [] step = "mountUser"          -> "appendVolumes"
      [] step = "appendVolumes"      -> "credentialsBuilder"
      [] step = "credentialsBuilder" -> "createSecret"
      [] step = "createSecret"       -> "appendInit"
      [] step = "appendInit"         -> "idle"

\* return err: the invocation is over and is counted.
Returns(err, startInitContainers, srcURI) ==
    /\ ret' = err
    /\ pc' = "idle"
    /\ loc' = NoLocals
    /\ calls' = calls + 1
    /\ hist' = Tally(hist, startInitContainers, srcURI, err)

\* Lines 60-70: entry and the guard.
Enter(srcURI, serviceAccountName, cred) ==
    /\ pc = "idle"
    /\ calls < MaxStepCalls
    /\ args' = [srcURI |-> srcURI, serviceAccountName |-> serviceAccountName, cred |-> cred]
    /\ pre' = [podSpec |-> podSpec, userContainer |-> userContainer]
    /\ same' = (ret # "none" /\ args' = args)
    /\ credCall' = NoCredCall
    /\ UNCHANGED <<podSpec, userContainer>>
    /\ IF AlreadyInjected(podSpec.InitContainers)
       THEN Returns("nil", podSpec.InitContainers, srcURI)
       ELSE /\ ret' = "pending"
            /\ pc' = "build"
            /\ UNCHANGED <<loc, calls, hist>>

\* Lines 72-132: parse, build the volumes, the mounts and the init container.
Build ==
    /\ pc = "build"
    /\ UNCHANGED <<podSpec, userContainer, args, pre, credCall, same>>
    /\ \E isPvc \in {HasPrefix(args.srcURI, PvcURIPrefix)}, parsed \in {parsePvcURI(args.srcURI)} :
           IF isPvc /\ parsed.err # "nil"
           THEN Returns(parsed.err, pre.podSpec.InitContainers, args.srcURI)
           ELSE /\ loc' = [podVolumes    |-> podVolumes(isPvc, parsed.pvcName),
                           initContainer |->
                               <<initContainer(
                                    IF isPvc THEN rewrittenURI(parsed.pvcPath) ELSE args.srcURI,
                                    modelInitializerMounts(isPvc))>>]
                /\ pc' = StepAfter("build")
                /\ UNCHANGED <<ret, calls, hist>>

\* Line 140.
MountUser ==
    /\ pc = "mountUser"
    /\ userContainer' = appendUserMount(userContainer)
    /\ pc' = StepAfter("mountUser")
    /\ UNCHANGED <<podSpec, ret, args, pre, credCall, same, calls, hist, loc>>

\* Line 143.
AppendVolumes ==
    /\ pc = "appendVolumes"
    /\ podSpec' = appendVolumes(podSpec, loc.podVolumes)
    /\ pc' = StepAfter("appendVolumes")
    /\ UNCHANGED <<userContainer, ret, args, pre, credCall, same, calls, hist, loc>>

\* Lines 146-149.
CredentialsBuilder ==
    /\ pc = "credentialsBuilder"
    /\ UNCHANGED <<podSpec, userContainer, args, pre, credCall, same>>
    /\ IF credentialsBuilder(args.cred) # "nil"
       THEN Returns(credentialsBuilder(args.cred), pre.podSpec.InitContainers, args.srcURI)
       ELSE /\ pc' = StepAfter("credentialsBuilder")
            /\ UNCHANGED <<ret, calls, hist, loc>>

\* Lines 150-161: the collaborator is handed the init container and the
\* volumes of the pod template.
CreateSecret ==
    /\ pc = "createSecret"
    /\ \E c \in {CreateSecretVolumeAndEnv(args.cred, loc.initContainer[1], podSpec.Volumes)} :
           /\ credCall' = CredCall(effectiveServiceAccount(args.serviceAccountName, podSpec),
                                   podSpec.Volumes)
           /\ podSpec' = [podSpec EXCEPT !.Volumes = c.volumes]
           /\ IF c.err # "nil"
              THEN Returns(c.err, pre.podSpec.InitContainers, args.srcURI)
              ELSE /\ loc' = [loc EXCEPT !.initContainer = <<c.container>>]
                   /\ pc' = StepAfter("createSecret")
                   /\ UNCHANGED <<ret, calls, hist>>
    /\ UNCHANGED <<userContainer, args, pre, same>>

\* Lines 163-166.
AppendInit ==
    /\ pc = "appendInit"
    /\ podSpec' = appendInitContainer(podSpec, loc.initContainer[1])
    /\ Returns("nil", pre.podSpec.InitContainers, args.srcURI)
    /\ UNCHANGED <<userContainer, args, pre, credCall, same>>

StepNext ==
    \/ \E srcURI \in SourceURIs, serviceAccountName \in ServiceAccountOverrides,
          cred \in CredBehaviours :
           Enter(srcURI, serviceAccountName, cred)
    \/ Build
    \/ MountUser
    \/ AppendVolumes
    \/ CredentialsBuilder
    \/ CreateSecret
    \/ AppendInit

StepSpec == Init /\ [][StepNext]_vars

\* Once an invocation has returned, the statements have left what Inject says.
StepsMatchInject ==
    (pc = "idle" /\ ret # "none") =>
        Outcome(podSpec, userContainer, ret, credCall) =
            Inject(pre.podSpec, pre.userContainer, args.srcURI,
                   args.serviceAccountName, args.cred)

\* ------------------------------------------------- vocabulary of the claims
\* Positions of the init containers that carry the reserved name.
Reserved(initContainers) ==
    {i \in 1..Len(initContainers) : initContainers[i].Name = ModelInitializerContainerName}

Called == ret # "none"

\* The last invocation started on a NotInjected pod template.
StartedNotInjected == Called /\ Reserved(pre.podSpec.InitContainers) = {}

\* The last invocation started on an Injected pod template.
StartedInjected == Called /\ Reserved(pre.podSpec.InitContainers) # {}

IsPrefixOf(s, t) == Len(s) <= Len(t) /\ \A i \in 1..Len(s) : s[i] = t[i]

\* The URI reads p, v, c, :, /, / and then anything.
IsClaimURI(uri) == IsPrefixOf(<<"p", "v", "c", ":", "/", "/">>, uri)

RemainderOf(uri) == [i \in 1..(Len(uri) - 6) |-> uri[i + 6]]

\* Position of the first "/" of a remainder, 0 when it has none.
FirstSlash(rem) ==
    IF \A i \in 1..Len(rem) : rem[i] # "/" THEN 0
    ELSE CHOOSE i \in 1..Len(rem) : rem[i] = "/" /\ \A j \in 1..(i - 1) : rem[j] # "/"

\* The claim name of a pvc:// URI: what precedes the first "/" of the remainder.
ClaimNameOf(uri) ==
    LET rem == RemainderOf(uri)
    IN  IF FirstSlash(rem) = 0 THEN rem ELSE SubSeq(rem, 1, FirstSlash(rem) - 1)

\* The sub-path of a pvc:// URI: what follows the first "/" of the remainder.
SubPathOf(uri) ==
    LET rem == RemainderOf(uri)
    IN  IF FirstSlash(rem) = 0 THEN <<>> ELSE SubSeq(rem, FirstSlash(rem) + 1, Len(rem))

MntModels == <<"/", "m", "n", "t", "/", "m", "o", "d", "e", "l", "s">>
MntPvc == <<"/", "m", "n", "t", "/", "p", "v", "c">>

ScratchVolume ==
    [Name |-> "kfserving-provision-location", Source |-> "EmptyDir", ClaimName |-> <<>>]

ClaimVolume(claim) ==
    [Name |-> "kfserving-pvc-source", Source |-> "PersistentVolumeClaim", ClaimName |-> claim]

ScratchMount(readOnly) ==
    [Name |-> "kfserving-provision-location", MountPath |-> MntModels, ReadOnly |-> readOnly]

\* The volumes one invocation builds for a source URI.
BuiltVolumes(uri) ==
    IF IsClaimURI(uri) THEN <<ClaimVolume(ClaimNameOf(uri)), ScratchVolume>>
    ELSE <<ScratchVolume>>

NamesUnique(list) ==
    \A i, j \in 1..Len(list) : list[i].Name = list[j].Name => i = j

LastOf(list) == list[Len(list)]

\* The last invocation appended one init container and returned success.
Injected ==
    /\ StartedNotInjected
    /\ ret = "nil"
    /\ Len(podSpec.InitContainers) = Len(pre.podSpec.InitContainers) + 1

\* ------------------------------------------------------------------ claims

\* C1: invoking InjectModelInitializer twice in a row with identical inputs
\* (same URI, same service-account override, same collaborator behaviour)
\* leaves the init containers, the volumes and the user container's mounts
\* as they were after the first invocation.
C1_Idempotent ==
    same =>
        /\ podSpec.InitContainers = pre.podSpec.InitContainers
        /\ podSpec.Volumes = pre.podSpec.Volumes
        /\ userContainer.VolumeMounts = pre.userContainer.VolumeMounts

\* C2: after any sequence of invocations the volume names of the pod template
\* are pairwise distinct and so are the mount names of the user container.
C2_NamesUnique ==
    /\ NamesUnique(podSpec.Volumes)
    /\ NamesUnique(userContainer.VolumeMounts)

\* C3: in every reachable state at most one init container is named
\* model-initializer.
C3_AtMostOneReserved ==
    Cardinality(Reserved(podSpec.InitContainers)) <= 1

\* An invocation arrived after this code had injected its init container.
C3_Witness ==
    /\ calls = 2
    /\ StartedInjected
    /\ LastOf(pre.podSpec.InitContainers).Args # <<>>
    /\ Cardinality(Reserved(podSpec.InitContainers)) = 1

\* C4: invoked with the URI pvc:// on a NotInjected pod template, the call
\* returns InvalidURI and leaves volumes, init containers and the user
\* container's mounts unchanged.
C4_EmptyLocatorRejected ==
    (StartedNotInjected /\ args.srcURI = <<"p", "v", "c", ":", "/", "/">>) =>
        /\ ret = "InvalidURI"
        /\ podSpec = pre.podSpec
        /\ userContainer = pre.userContainer

\* C5: when the credential step fails on a NotInjected pod template (config
\* map lookup or CreateSecretVolumeAndEnv), the call returns that error, the
\* init containers are as before the call, the volumes built by the call stay
\* appended after the earlier ones and the read-only scratch mount stays
\* appended to the user container.
C5_PartialCommit ==
    (StartedNotInjected /\ args.cred \in {"configErr", "credErr", "credErrSecret"}) =>
        /\ ret = (IF args.cred = "configErr" THEN "ConfigMapError" ELSE "CredentialError")
        /\ podSpec.InitContainers = pre.podSpec.InitContainers
        /\ IsPrefixOf(pre.podSpec.Volumes \o BuiltVolumes(args.srcURI), podSpec.Volumes)
        /\ userContainer.VolumeMounts =
               Append(pre.userContainer.VolumeMounts, ScratchMount(TRUE))

\* CreateSecretVolumeAndEnv failed on a claim-backed source: two volumes stay behind.
C5_Witness ==
    /\ StartedNotInjected
    /\ ret = "CredentialError"
    /\ IsClaimURI(args.srcURI)
    /\ Len(podSpec.Volumes) >= Len(pre.podSpec.Volumes) + 2
    /\ Reserved(podSpec.InitContainers) = {}

\* C6: when an init container named model-initializer is already present, the
\* call returns success for every URI and override, does not invoke the
\* credential collaborator, and leaves init containers, volumes, the user
\* container's mounts and the service-account reference unchanged.
C6_AlreadyInjectedNoOp ==
    StartedInjected =>
        /\ ret = "nil"
        /\ ~credCall.invoked
        /\ podSpec.InitContainers = pre.podSpec.InitContainers
        /\ podSpec.Volumes = pre.podSpec.Volumes
        /\ podSpec.ServiceAccountName = pre.podSpec.ServiceAccountName
        /\ userContainer.VolumeMounts = pre.userContainer.VolumeMounts

\* The guard met a reserved container that is not the first of the list, with
\* a claim-backed URI, an override and a cluster that would have failed.
C6_Witness ==
    /\ StartedInjected
    /\ Reserved(pre.podSpec.InitContainers) = {2}
    /\ IsClaimURI(args.srcURI)
    /\ args.serviceAccountName # ""
    /\ args.cred = "configErr"

\* C7: after a successful invocation on a NotInjected pod template exactly one
\* init container is named model-initializer and it is the last of the list;
\* its image is the default image, ':' and the default tag; its arguments are
\* the effective source URI and then /mnt/models.
C7_PostInjectionShape ==
    (StartedNotInjected /\ ret = "nil") =>
        LET ics == podSpec.InitContainers
        IN  /\ Len(ics) = Len(pre.podSpec.InitContainers) + 1
            /\ SubSeq(ics, 1, Len(ics) - 1) = pre.podSpec.InitContainers
            /\ Reserved(ics) = {Len(ics)}
            /\ LastOf(ics).Image = "gcr.io/kfserving/model-initializer:latest"
            /\ Len(LastOf(ics).Args) = 2
            /\ LastOf(ics).Args[1] =
                   (IF IsClaimURI(args.srcURI)
                    THEN MntPvc \o <<"/">> \o SubPathOf(args.srcURI)
                    ELSE args.srcURI)
            /\ LastOf(ics).Args[2] = MntModels

\* An injection behind an earlier init container, with credentials attached.
C7_Witness ==
    /\ Injected
    /\ Len(podSpec.InitContainers) = 2
    /\ args.cred = "okSecret"

\* C8 as stated: a successful injection of a pvc:// source appends exactly two
\* volumes, claim-staging then scratch; the claim-staging volume references
\* the parsed claim name; the init container mounts it read-only at /mnt/pvc
\* and the user container does not; argument[0] is /mnt/pvc, one '/', and the
\* parsed sub-path.
C8_ExactlyTwoVolumes ==
    (StartedNotInjected /\ ret = "nil" /\ IsClaimURI(args.srcURI)) =>
        /\ podSpec.Volumes = pre.podSpec.Volumes \o BuiltVolumes(args.srcURI)
        /\ \E i \in 1..Len(LastOf(podSpec.InitContainers).VolumeMounts) :
               LastOf(podSpec.InitContainers).VolumeMounts[i] =
                   [Name |-> "kfserving-pvc-source", MountPath |-> MntPvc, ReadOnly |-> TRUE]
        /\ Len(userContainer.VolumeMounts) = Len(pre.userContainer.VolumeMounts) + 1
        /\ LastOf(userContainer.VolumeMounts).Name # "kfserving-pvc-source"
        /\ LastOf(podSpec.InitContainers).Args[1] =
               MntPvc \o <<"/">> \o SubPathOf(args.srcURI)

\* C8, amended: a successful injection of a pvc:// source appends the
\* claim-staging volume and then the scratch volume right after the earlier
\* volumes, and these two are all that the call itself builds: the list handed
\* to the credential collaborator is the earlier volumes plus exactly these
\* two, and whatever follows them afterwards was appended by the collaborator.
\* The claim-staging volume references the parsed claim name; the init
\* container has exactly one mount of it, read-only at /mnt/pvc, and the user
\* container none from this call; argument[0] is /mnt/pvc, one '/', and the
\* parsed sub-path.
C8_ClaimWiring ==
    (StartedNotInjected /\ ret = "nil" /\ IsClaimURI(args.srcURI)) =>
        LET ic    == LastOf(podSpec.InitContainers)
            built == pre.podSpec.Volumes \o
                        <<ClaimVolume(ClaimNameOf(args.srcURI)), ScratchVolume>>
        IN  /\ credCall.invoked
            /\ credCall.volumes = built
            /\ IsPrefixOf(built, podSpec.Volumes)
            /\ \A i \in (Len(built) + 1)..Len(podSpec.Volumes) :
                   podSpec.Volumes[i].Source = "Secret"
            /\ Len(podSpec.Volumes) = Len(built) <=> args.cred = "ok"
            /\ Cardinality({i \in 1..Len(ic.VolumeMounts) :
                               ic.VolumeMounts[i].Name = "kfserving-pvc-source"}) = 1
            /\ \E i \in 1..Len(ic.VolumeMounts) :
                   ic.VolumeMounts[i] =
                       [Name |-> "kfserving-pvc-source", MountPath |-> MntPvc, ReadOnly |-> TRUE]
            /\ Len(userContainer.VolumeMounts) = Len(pre.userContainer.VolumeMounts) + 1
            /\ LastOf(userContainer.VolumeMounts).Name # "kfserving-pvc-source"
            /\ ic.Args[1] = MntPvc \o <<"/">> \o SubPathOf(args.srcURI)

\* pvc://a/b/c injected: claim a, argument[0] /mnt/pvc/b/c.
C8_Witness ==
    /\ Injected
    /\ args.srcURI = <<"p", "v", "c", ":", "/", "/", "a", "/", "b", "/", "c">>
    /\ podSpec.Volumes[Len(pre.podSpec.Volumes) + 1].ClaimName = <<"a">>
    /\ LastOf(podSpec.InitContainers).Args[1] =
           <<"/", "m", "n", "t", "/", "p", "v", "c", "/", "b", "/", "c">>

\* C9: a successful injection of a source that does not start with pvc://
\* appends the scratch volume as the one volume this code builds and no claim
\* volume, appends exactly one mount, read-only, to the user container, and
\* passes the URI unmodified as argument[0].
C9_OpaquePassThrough ==
    (StartedNotInjected /\ ret = "nil" /\ ~IsClaimURI(args.srcURI)) =>
        LET built == Append(pre.podSpec.Volumes, ScratchVolume)
        IN  /\ credCall.invoked
            /\ credCall.volumes = built
            /\ IsPrefixOf(built, podSpec.Volumes)
            /\ \A i \in (Len(pre.podSpec.Volumes) + 1)..Len(podSpec.Volumes) :
                   podSpec.Volumes[i].Source # "PersistentVolumeClaim"
            /\ userContainer.VolumeMounts =
                   Append(pre.userContainer.VolumeMounts, ScratchMount(TRUE))
            /\ LastOf(podSpec.InitContainers).Args[1] = args.srcURI

\* The near miss pvc:/a injected as an opaque source.
C9_Witness ==
    /\ Injected
    /\ args.srcURI = <<"p", "v", "c", ":", "/", "a">>
    /\ LastOf(podSpec.InitContainers).Args[1] = args.srcURI

\* C10: after a successful invocation on a NotInjected pod template the init
\* container has a read-write mount of the scratch volume, the user container
\* a read-only mount of it, and the two have the same mount path.
C10_MountSymmetry ==
    (StartedNotInjected /\ ret = "nil") =>
        LET im == LastOf(podSpec.InitContainers).VolumeMounts
            um == LastOf(userContainer.VolumeMounts)
            rw == {i \in 1..Len(im) : im[i].Name = "kfserving-provision-location"}
        IN  /\ Cardinality(rw) = 1
            /\ \A i \in rw : ~im[i].ReadOnly /\ im[i].MountPath = um.MountPath
            /\ um.Name = "kfserving-provision-location"
            /\ um.ReadOnly
            /\ \E v \in 1..Len(podSpec.Volumes) :
                   podSpec.Volumes[v].Name = um.Name /\ podSpec.Volumes[v].Source = "EmptyDir"

\* An injection whose init container carries three mounts: claim, scratch, secret.
C10_Witness ==
    /\ Injected
    /\ Len(LastOf(podSpec.InitContainers).VolumeMounts) = 3
    /\ LastOf(userContainer.VolumeMounts).ReadOnly

\* C11: for a pvc:// URI whose remainder has more than one '/'-separated
\* segment, parsePvcURI returns the first segment as the claim name and the
\* other segments rejoined with '/' as the sub-path; for a remainder of one
\* segment it returns that segment and the empty sub-path.  The claim volume
\* built from the result carries that claim name.
C11_ClaimURIParsing ==
    (Called /\ IsClaimURI(args.srcURI)) =>
        LET rem == RemainderOf(args.srcURI)
            got == parsePvcURI(args.srcURI)
        IN  /\ got.err = "nil"
            /\ FirstSlash(rem) = 0 => got.pvcName = rem /\ got.pvcPath = <<>>
            /\ FirstSlash(rem) # 0 =>
                   /\ got.pvcName = SubSeq(rem, 1, FirstSlash(rem) - 1)
                   /\ got.pvcPath = SubSeq(rem, FirstSlash(rem) + 1, Len(rem))
                   /\ got.pvcName \o <<"/">> \o got.pvcPath = rem
            /\ StartedNotInjected =>
                   podSpec.Volumes[Len(pre.podSpec.Volumes) + 1].ClaimName = got.pvcName
            /\ args.srcURI = <<"p", "v", "c", ":", "/", "/", "a", "/", "b", "/", "c">> =>
                   got.pvcName = <<"a">> /\ got.pvcPath = <<"b", "/", "c">>
            /\ args.srcURI = <<"p", "v", "c", ":", "/", "/", "a">> =>
                   got.pvcName = <<"a">> /\ got.pvcPath = <<>>

\* pvc://a//b was parsed: three segments, the middle one empty.
C11_Witness ==
    /\ StartedNotInjected
    /\ args.srcURI = <<"p", "v", "c", ":", "/", "/", "a", "/", "/", "b">>
    /\ podSpec.Volumes[Len(pre.podSpec.Volumes) + 1].ClaimName = <<"a">>
    /\ parsePvcURI(args.srcURI).pvcPath = <<"/", "b">>

\* C12: whenever the credential collaborator is invoked, the service-account
\* name it is passed is the caller's override when that is non-empty and the
\* pod template's service-account name otherwise; the pod template's own
\* service-account name is never modified.
C12_EffectiveServiceAccount ==
    Called =>
        /\ podSpec.ServiceAccountName = pre.podSpec.ServiceAccountName
        /\ credCall.invoked =>
               credCall.serviceAccountName =
                   (IF args.serviceAccountName # ""
                    THEN args.serviceAccountName
                    ELSE pre.podSpec.ServiceAccountName)

\* The collaborator was invoked with an override given over a pod template
\* that has its own service account.
C12_Witness ==
    /\ credCall.invoked
    /\ args.serviceAccountName = "model-sa"
    /\ pre.podSpec.ServiceAccountName = "default"
    /\ credCall.serviceAccountName = "model-sa"
    /\ podSpec.ServiceAccountName = "default"

\* C15: whatever its outcome, an invocation leaves the earlier init
\* containers, volumes and user-container mounts unmodified and in order as a
\* prefix of their lists, and leaves the list of regular containers as it was.
C15_AppendOnly ==
    Called =>
        /\ IsPrefixOf(pre.podSpec.InitContainers, podSpec.InitContainers)
        /\ IsPrefixOf(pre.podSpec.Volumes, podSpec.Volumes)
        /\ IsPrefixOf(pre.userContainer.VolumeMounts, userContainer.VolumeMounts)
        /\ podSpec.Containers = pre.podSpec.Containers
        /\ userContainer.Name = pre.userContainer.Name

\* A failing invocation grew the volumes and mounts of a pod template that
\* had some of its own, behind an earlier init container.
C15_Witness ==
    /\ Called
    /\ ret # "nil"
    /\ pre.podSpec.Volumes # <<>>
    /\ pre.podSpec.InitContainers # <<>>
    /\ pre.userContainer.VolumeMounts # <<>>
    /\ Len(podSpec.Volumes) > Len(pre.podSpec.Volumes)
    /\ Len(userContainer.VolumeMounts) > Len(pre.userContainer.VolumeMounts)

CountNamed(list, name) == Cardinality({i \in 1..Len(list) : list[i].Name = name})

\* C16: as long as every invocation was given a well-formed URI, the number of
\* scratch volumes of the pod template equals the number of scratch mounts of
\* the user container and the number of invocations that got past the guard,
\* which are the failed attempts plus at most one successful attempt; the
\* number of claim-staging volumes equals the number of those invocations that
\* were given a pvc:// source.
C16_Accounting ==
    ~hist.malformed =>
        /\ CountNamed(podSpec.Volumes, "kfserving-provision-location") = hist.passed
        /\ CountNamed(userContainer.VolumeMounts, "kfserving-provision-location") = hist.passed
        /\ CountNamed(podSpec.Volumes, "kfserving-pvc-source") = hist.passedPvc
        /\ hist.passed = hist.failed + hist.succeeded
        /\ hist.succeeded <= 1
        /\ hist.passed <= calls

\* A failed attempt and then a successful one, both on a pvc:// source.
C16_Witness ==
    /\ ~hist.malformed
    /\ hist.failed = 1
    /\ hist.succeeded = 1
    /\ hist.passedPvc = 2
    /\ CountNamed(podSpec.Volumes, "kfserving-pvc-source") = 2

\* C14: when the caller invokes again with the same inputs on every pass and
\* the credential step succeeds on some pass, the pod template eventually
\* carries the reserved init container; from then on it keeps it, and every
\* later invocation returns success and changes nothing.
C14_RetryConvergence ==
    /\ <>(Reserved(podSpec.InitContainers) # {})
    /\ [][Reserved(podSpec.InitContainers) # {} =>
            /\ Reserved(podSpec'.InitContainers) # {}
            /\ ret' = "nil"
            /\ podSpec' = podSpec
            /\ userContainer' = userContainer]_vars

\* Two failed passes, then the pass that injected.
C14_Witness ==
    /\ hist.failed = 2
    /\ hist.succeeded = 1
    /\ ret = "nil"
    /\ Reserved(podSpec.InitContainers) # {}
    /\ Reserved(pre.podSpec.InitContainers) = {}

\* C13: whenever an invocation stands at or past its credential step, the
\* user container's scratch mount and all the volumes the invocation built are
\* already appended, and they are in the volume list the collaborator is
\* handed; the init container is appended only after the collaborator has
\* returned success, so no state holds an init container appended by an
\* invocation whose credential step has not succeeded.
C13_CommitOrdering ==
    /\ (pc \in {"credentialsBuilder", "createSecret", "appendInit"} \/ credCall.invoked) =>
           /\ userContainer.VolumeMounts =
                  Append(pre.userContainer.VolumeMounts, ScratchMount(TRUE))
           /\ IsPrefixOf(pre.podSpec.Volumes \o BuiltVolumes(args.srcURI), podSpec.Volumes)
    /\ credCall.invoked =>
           credCall.volumes = pre.podSpec.Volumes \o BuiltVolumes(args.srcURI)
    /\ pc # "idle" => podSpec.InitContainers = pre.podSpec.InitContainers
    /\ podSpec.InitContainers # pre.podSpec.InitContainers =>
           /\ credCall.invoked
           /\ args.cred \in {"ok", "okSecret"}
           /\ ret = "nil"
           /\ podSpec.InitContainers =
                  Append(pre.podSpec.InitContainers, LastOf(podSpec.InitContainers))

\* The collaborator has returned success on a claim-backed source and added a
\* volume of its own; the init container is not appended yet.
C13_Witness ==
    /\ pc = "appendInit"
    /\ credCall.invoked
    /\ IsClaimURI(args.srcURI)
    /\ Len(podSpec.Volumes) = Len(credCall.volumes) + 1
    /\ podSpec.InitContainers = pre.podSpec.InitContainers

====
